---- MODULE Spec2Model ----
(***************************************************************************)
(* Session store and token-refresh proxy of the BFF                        *)
(* (server/storage.ts MemStorage; server/routes.ts requireAuth,            *)
(* proxyRequest, refreshTokens and the /api/auth handlers).                *)
(*                                                                         *)
(* Time is in milliseconds, as Date.now().  Tokens are opaque strings in   *)
(* the code; here the upstream's k-th issued token is the number k, and 0  *)
(* stands for undefined (no token, no Authorization header).               *)
(* Every inbound HTTP request is a process.  Every await of the code is a  *)
(* point where other handlers may run, so the pc of a request names the    *)
(* await its handler is parked at; what runs between two awaits is one     *)
(* step.                                                                    *)
(***************************************************************************)
EXTENDS Integers, FiniteSets, Sequences, TLC

\* ---------------------------------------------------------------- bounds
\* Inbound HTTP requests over the life of the process.
NumReqs == 3
\* Token sets the upstream issues (by login or refresh exchanges).
MaxIssued == 2
\* Steps of the wall clock.
MaxTicks == 1
\* Token sets the upstream issues when its answers are followed on their way
\* back (RaceSpec): one more, for two refresh exchanges after a login.
RaceIssued == MaxIssued + 1

\* ------------------------------------------------------ program constants
TOKEN_REFRESH_BUFFER_MS == 5 * 60 * 1000

\* HTTP statuses the BFF itself answers with.
Ok == 200
Unauthorized == 401
InternalError == 500

\* What the upstream may answer a forwarded call with; NetErr is fetch throwing.
NetErr == 0
UpstreamStatuses == {200, 401, 404}
ForwardOutcomes == UpstreamStatuses \cup {NetErr}

\* Non-ok statuses the upstream may answer a login exchange with.
LoginRejections == {401}

\* The body of an upstream response, as far as the handlers look at it: its
\* content-type header and whether its text is a JSON document ("json") or
\* not ("notjson": empty, HTML, truncated).
UpstreamBodies ==
    {[contentType |-> "application/json", text |-> "json"],
     [contentType |-> "application/json", text |-> "notjson"],
     [contentType |-> "text/html", text |-> "notjson"]}

\* response.json(): resolves for a JSON document, rejects for anything else.
Parses(b) == b.text = "json"

\* The body of a response whose body the handler never reads.
Unread == [contentType |-> "application/json", text |-> "json"]

\* The bodies a forwarded call may be answered with, per upstream outcome.
BodiesOf(st) == IF st = Ok THEN UpstreamBodies ELSE {Unread}

\* The bodies a rejected login exchange may be answered with (the handler
\* does not look at the content type).
LoginErrorBodies == {b \in UpstreamBodies : b.contentType = "application/json"}

\* expires_in (seconds) the upstream may report.
ExpiresIn == {60, 600}

\* The wall clock advances in steps of the refresh window.
TickSteps == {TOKEN_REFRESH_BUFFER_MS}

Reqs == 1..NumReqs
NoCookie == 0
NoStatus == 0

VARIABLES
    now,        \* Date.now()
    sessions,   \* MemStorage.sessions: session id -> SessionData
    nextSid,    \* the next randomUUID(): ids are never reused
    issued,     \* how many token sets the upstream has issued
    req,        \* the inbound requests being served
    last,       \* the request answered last, as it was when answered
    failed      \* the session ids a refresh exchange has failed for

vars == <<now, sessions, nextSid, issued, req, last, failed>>

\* Cookies a client may present: none, or an id some login was given.
Cookies == 0..(nextSid - 1)

\* ------------------------------------------------------------- storage.ts
\* `undefined` as the value of getSession / req.session.
Undefined == [accessToken |-> 0, refreshToken |-> 0, expiresAt |-> 0]

\* (mutant) the lifetime is a fixed hour, whatever the upstream reported.
createSessionGuessing(store, sessionId, tokens, t) ==
    [s \in DOMAIN store \cup {sessionId} |->
        IF s = sessionId
        THEN [accessToken |-> tokens.access_token,
              refreshToken |-> tokens.refresh_token,
              expiresAt |-> t + 3600 * 1000]
        ELSE store[s]]

createSession(store, sessionId, tokens, t) ==
    [s \in DOMAIN store \cup {sessionId} |->
        IF s = sessionId
        THEN [accessToken |-> tokens.access_token,
              refreshToken |-> tokens.refresh_token,
              expiresAt |-> t + tokens.expires_in * 1000]
        ELSE store[s]]

getSession(store, sessionId) ==
    IF sessionId \in DOMAIN store THEN store[sessionId] ELSE Undefined

\* (mutant) the write does not look for the row first: an absent row is created.
updateSessionUpserting(store, sessionId, data) ==
    [s \in DOMAIN store \cup {sessionId} |->
        IF s = sessionId
        THEN [f \in DOMAIN Undefined |->
                 IF f \in DOMAIN data THEN data[f] ELSE getSession(store, s)[f]]
        ELSE store[s]]

\* (mutant) the write is torn: the access token is stored, the expiry is not.
updateSessionTorn(store, sessionId, data) ==
    IF sessionId \in DOMAIN store
    THEN [store EXCEPT ![sessionId].accessToken = data.accessToken]
    ELSE store

updateSession(store, sessionId, data) ==
    IF sessionId \in DOMAIN store
    THEN [store EXCEPT ![sessionId] =
            [f \in DOMAIN @ |-> IF f \in DOMAIN data THEN data[f] ELSE @[f]]]
    ELSE store

\* (mutant) the store is emptied: sessions.clear() for sessions.delete(id).
deleteSessionClearing(store, sessionId) ==
    [s \in {} |-> store[s]]

deleteSession(store, sessionId) ==
    [s \in DOMAIN store \ {sessionId} |-> store[s]]

\* (mutant) an expired row is reported as not authenticated but stays in the map.
getSessionInfoKeeping(store, sessionId, t) ==
    IF sessionId \notin DOMAIN store
    THEN [isAuthenticated |-> FALSE, store |-> store]
    ELSE IF store[sessionId].expiresAt < t
    THEN [isAuthenticated |-> FALSE, store |-> store]
    ELSE [isAuthenticated |-> TRUE, store |-> store]

\* Returns the answer and the store it leaves behind.
getSessionInfo(store, sessionId, t) ==
    IF sessionId \notin DOMAIN store
    THEN [isAuthenticated |-> FALSE, store |-> store]
    ELSE IF store[sessionId].expiresAt < t
    THEN [isAuthenticated |-> FALSE, store |-> deleteSession(store, sessionId)]
    ELSE [isAuthenticated |-> TRUE, store |-> store]

\* -------------------------------------------------------------- routes.ts
\* a || b on token values
Or(a, b) == IF a # 0 THEN a ELSE b

\* The data both refresh paths hand to updateSession.
RefreshedData(newTokens, session, t) ==
    [accessToken |-> newTokens.access_token,
     refreshToken |-> Or(newTokens.refresh_token, session.refreshToken),
     expiresAt |-> t + newTokens.expires_in * 1000]

\* Token sets the upstream can answer a login or refresh exchange with.
NewTokens ==
    {[access_token |-> issued + 1, refresh_token |-> rt, expires_in |-> e] :
        rt \in {0, issued + 1}, e \in ExpiresIn}

\* refreshTokens(refreshToken): what the exchange resolves to.  A non-ok
\* status, a thrown fetch and an unparsable body all give null.  The token
\* sets enumerated for a refresh are those that outlive the refresh window.
Null == [access_token |-> 0, refresh_token |-> 0, expires_in |-> 0]
RefreshResults ==
    {Null} \cup {t \in NewTokens : t.expires_in * 1000 > TOKEN_REFRESH_BUFFER_MS}

\* What the client is sent as the body: res.json(literal) of the BFF's own, or
\* the upstream's body handed on; credentials are the tokens it carries.
Json(content) == [origin |-> "bff", content |-> content, credentials |-> {}]
Relayed(b) == [origin |-> "upstream", content |-> b.text, credentials |-> {}]
NoBody == [origin |-> "none", content |-> "", credentials |-> {}]

\* A request: which handler serves it (kind), where the handler is parked
\* (pc), its locals (sessionId, session, bearer: the access token on the
\* forwarded call in flight), what it has sent upstream so far (nForward,
\* proactive, reactive: forwarded calls and refresh exchanges of requireAuth
\* and of proxyRequest), the token set the upstream has issued for its refresh
\* exchange and whose response is on its way (granted), the last upstream
\* status it saw (upstatus), how many responses it has sent (responses) and its
\* response (status, body, cleared: clearSessionCookie was called, setCookie:
\* the id setSessionCookie was called with, isAuthenticated, removed: the
\* handler took a row out of the store).
IdleReq ==
    [kind |-> "none", pc |-> "idle", sessionId |-> NoCookie, session |-> Undefined,
     bearer |-> 0, nForward |-> 0, proactive |-> 0, reactive |-> 0,
     granted |-> Null, upstatus |-> NoStatus, responses |-> 0, status |-> NoStatus, body |-> NoBody,
     cleared |-> FALSE, setCookie |-> NoCookie,
     isAuthenticated |-> FALSE, removed |-> FALSE]

\* res.status(st).json(...), after clearSessionCookie when clr.  The handler
\* returns: its locals are gone.
Respond(q, st, clr, body) ==
    [q EXCEPT !.pc = "done", !.status = st, !.cleared = clr, !.body = body,
              !.responses = @ + 1, !.session = Undefined, !.bearer = 0]

\* apiRequest(apiPath, ..., accessToken) is sent; the handler awaits it.
SendForward(q, pc, session, accessToken) ==
    [q EXCEPT !.pc = pc, !.session = session, !.bearer = accessToken,
              !.nForward = @ + 1]

\* A request that has been answered leaves nothing behind in the process.
Answered == [IdleReq EXCEPT !.pc = "done"]

\* Request r goes on as q: parked at its next await, or answered.
Becomes(r, q) ==
    LET a == q IN
    /\ req' = [req EXCEPT ![r] = IF a.pc = "done" THEN Answered ELSE a]
    /\ last' = IF a.pc = "done" THEN a ELSE last

\* Requests are numbered in the order of their arrival.
CanArrive(r) ==
    /\ req[r].pc = "idle"
    /\ \A p \in Reqs : p < r => req[p].pc # "idle"

Init ==
    /\ now = 0
    /\ sessions = <<>>
    /\ nextSid = 1
    /\ issued = 0
    /\ req = [r \in Reqs |-> IdleReq]
    /\ last = IdleReq
    /\ failed = {}

Tick ==
    \E d \in TickSteps :
        /\ now + d <= MaxTicks * TOKEN_REFRESH_BUFFER_MS
        /\ now' = now + d
        /\ UNCHANGED <<sessions, nextSid, issued, req, last, failed>>

\* (mutant) a cookie is taken at its word: a missing row does not stop the
\* request, which goes on to proxyRequest without a session.
requireAuthTrusting(q, c) ==
    LET session == getSession(sessions, c) IN
    IF c = NoCookie
    THEN Respond(q, Unauthorized, FALSE, Json("Unauthorized"))
    ELSE IF session.expiresAt < now + TOKEN_REFRESH_BUFFER_MS /\ session.refreshToken # 0
    THEN [q EXCEPT !.pc = "authRefresh", !.sessionId = c, !.session = session,
                   !.proactive = @ + 1]
    ELSE IF c \in DOMAIN sessions /\ session.expiresAt < now
    THEN Respond([q EXCEPT !.sessionId = c], Unauthorized, TRUE, Json("Session expired"))
    ELSE SendForward([q EXCEPT !.sessionId = c], "forward",
                     getSession(sessions, c), getSession(sessions, c).accessToken)

\* (mutant) the window test does not ask for a refresh token.
requireAuthRefreshingAnyway(q, c) ==
    LET session == getSession(sessions, c) IN
    IF c = NoCookie
    THEN Respond(q, Unauthorized, FALSE, Json("Unauthorized"))
    ELSE IF c \notin DOMAIN sessions
    THEN Respond([q EXCEPT !.sessionId = c], Unauthorized, TRUE, Json("Session expired"))
    ELSE IF session.expiresAt < now + TOKEN_REFRESH_BUFFER_MS
    THEN [q EXCEPT !.pc = "authRefresh", !.sessionId = c, !.session = session,
                   !.proactive = @ + 1]
    ELSE SendForward([q EXCEPT !.sessionId = c], "forward",
                     getSession(sessions, c), getSession(sessions, c).accessToken)

\* ---- requireAuth, up to its first await (or to the end when none is due)
requireAuth(q, c) ==
    LET session == getSession(sessions, c) IN
    IF c = NoCookie
    THEN Respond(q, Unauthorized, FALSE, Json("Unauthorized"))
    ELSE IF c \notin DOMAIN sessions
    THEN Respond([q EXCEPT !.sessionId = c], Unauthorized, TRUE, Json("Session expired"))
    ELSE IF session.expiresAt < now + TOKEN_REFRESH_BUFFER_MS /\ session.refreshToken # 0
    THEN [q EXCEPT !.pc = "authRefresh", !.sessionId = c, !.session = session,
                   !.proactive = @ + 1]
    ELSE IF session.expiresAt < now
    THEN Respond([q EXCEPT !.sessionId = c], Unauthorized, TRUE, Json("Session expired"))
    ELSE \* next(): proxyRequest runs to its first await
         SendForward([q EXCEPT !.sessionId = c], "forward",
                     getSession(sessions, c), getSession(sessions, c).accessToken)

\* A request for a protected endpoint arrives with cookie c.
Arrive(r, c) ==
    /\ CanArrive(r)
    /\ Becomes(r, requireAuth([req[r] EXCEPT !.kind = "protected"], c))
    /\ UNCHANGED <<now, sessions, nextSid, issued, failed>>

\* ---- requireAuth resumes after await refreshTokens(session.refreshToken)
authRefreshStore(q, newTokens) ==
    IF newTokens # Null
    THEN updateSession(sessions, q.sessionId, RefreshedData(newTokens, q.session, now))
    ELSE sessions

\* (mutant) the return after the 401 is missing: the failed refresh is
\* answered and the request is handed on to proxyRequest as well.
authRefreshReqFallingThrough(q, newTokens, store) ==
    IF newTokens # Null
    THEN SendForward(q, "forward", getSession(store, q.sessionId),
                     getSession(store, q.sessionId).accessToken)
    ELSE SendForward([q EXCEPT !.status = Unauthorized, !.cleared = TRUE,
                               !.body = Json("Session expired"), !.responses = @ + 1],
                     "forward", getSession(store, q.sessionId),
                     getSession(store, q.sessionId).accessToken)

authRefreshReq(q, newTokens, store) ==
    IF newTokens # Null
    THEN SendForward(q, "forward", getSession(store, q.sessionId),
                     getSession(store, q.sessionId).accessToken)
    ELSE Respond(q, Unauthorized, TRUE, Json("Session expired"))

AuthRefreshDone(r, newTokens) ==
    /\ req[r].pc = "authRefresh"
    /\ req[r].granted = Null
    /\ newTokens # Null => issued < MaxIssued
    /\ sessions' = authRefreshStore(req[r], newTokens)
    /\ Becomes(r, authRefreshReq(req[r], newTokens, sessions'))
    /\ issued' = IF newTokens # Null THEN issued + 1 ELSE issued
    /\ failed' = IF newTokens = Null THEN failed \cup {req[r].sessionId} ELSE failed
    /\ UNCHANGED <<now, nextSid>>

\* The same resumption, when the upstream issued the token set in an earlier
\* step (RefreshIssued) and its response arrives now.
AuthRefreshDelivered(r) ==
    /\ req[r].pc = "authRefresh"
    /\ req[r].granted # Null
    /\ sessions' = authRefreshStore(req[r], req[r].granted)
    /\ Becomes(r, authRefreshReq([req[r] EXCEPT !.granted = Null], req[r].granted, sessions'))
    /\ UNCHANGED <<now, nextSid, issued, failed>>

\* ---- proxyRequest resumes after the first await apiRequest(...)
\* Relay of the final upstream response (lines 541-555).
\* (mutant) the catch block gives the session up: it clears the cookie too.
CaughtClearingCookie(q) == Respond(q, InternalError, TRUE, Json("Internal server error"))

\* The catch block: fetch threw, or response.json() rejected.
Caught(q) == Respond(q, InternalError, FALSE, Json("Internal server error"))

Relay(q, st, b) ==
    IF st = Unauthorized
    THEN Respond(q, Unauthorized, TRUE, Json("Session expired"))
    ELSE IF b.contentType = "application/json"
    THEN IF Parses(b) THEN Respond(q, st, FALSE, Relayed(b)) ELSE Caught(q)
    ELSE Respond(q, st, FALSE, Relayed(b))

\* (mutant) a 401 starts the refresh-and-retry round whether or not the session
\* holds a refresh token.
forwardDoneRefreshingAnyway(q, st, b) ==
    IF st = NetErr
    THEN Caught([q EXCEPT !.upstatus = st])
    ELSE IF st = Unauthorized
    THEN [q EXCEPT !.pc = "proxyRefresh", !.upstatus = st, !.reactive = @ + 1]
    ELSE Relay([q EXCEPT !.upstatus = st], st, b)

forwardDone(q, st, b) ==
    IF st = NetErr
    THEN Caught([q EXCEPT !.upstatus = st])
    ELSE IF st = Unauthorized /\ q.session.refreshToken # 0
    THEN [q EXCEPT !.pc = "proxyRefresh", !.upstatus = st, !.reactive = @ + 1]
    ELSE Relay([q EXCEPT !.upstatus = st], st, b)

ForwardDone(r, st, b) ==
    /\ req[r].pc = "forward"
    /\ Becomes(r, forwardDone(req[r], st, b))
    /\ UNCHANGED <<now, sessions, nextSid, issued, failed>>

\* ---- proxyRequest resumes after await refreshTokens(session.refreshToken)
proxyRefreshStore(q, newTokens) ==
    IF newTokens # Null
    THEN updateSession(sessions, q.sessionId, RefreshedData(newTokens, q.session, now))
    ELSE sessions

proxyRefreshReq(q, newTokens) ==
    IF newTokens # Null
    THEN SendForward(q, "retry", q.session, newTokens.access_token)
    ELSE Respond(q, Unauthorized, TRUE, Json("Session expired"))

ProxyRefreshDone(r, newTokens) ==
    /\ req[r].pc = "proxyRefresh"
    /\ req[r].granted = Null
    /\ newTokens # Null => issued < MaxIssued
    /\ sessions' = proxyRefreshStore(req[r], newTokens)
    /\ Becomes(r, proxyRefreshReq(req[r], newTokens))
    /\ issued' = IF newTokens # Null THEN issued + 1 ELSE issued
    /\ failed' = IF newTokens = Null THEN failed \cup {req[r].sessionId} ELSE failed
    /\ UNCHANGED <<now, nextSid>>

ProxyRefreshDelivered(r) ==
    /\ req[r].pc = "proxyRefresh"
    /\ req[r].granted # Null
    /\ sessions' = proxyRefreshStore(req[r], req[r].granted)
    /\ Becomes(r, proxyRefreshReq([req[r] EXCEPT !.granted = Null], req[r].granted))
    /\ UNCHANGED <<now, nextSid, issued, failed>>

\* ---- the upstream handles POST /auth/refresh of request r: it issues a
\* token set, and the response sets out for the handler that awaits it.
RefreshIssued(r, newTokens) ==
    /\ req[r].pc \in {"authRefresh", "proxyRefresh"}
    /\ req[r].granted = Null
    /\ issued < RaceIssued
    /\ req' = [req EXCEPT ![r].granted = newTokens]
    /\ issued' = issued + 1
    /\ UNCHANGED <<now, sessions, nextSid, last, failed>>

\* ---- proxyRequest resumes after the retried await apiRequest(...)
\* (mutant) the retry is handled like the first attempt: a 401 on it starts
\* another refresh-and-retry round.
retryDoneAgain(q, st, b) ==
    IF st = NetErr
    THEN Caught([q EXCEPT !.upstatus = st])
    ELSE IF st = Unauthorized /\ q.session.refreshToken # 0
    THEN [q EXCEPT !.pc = "proxyRefresh", !.upstatus = st, !.reactive = @ + 1]
    ELSE Relay([q EXCEPT !.upstatus = st], st, b)

retryDone(q, st, b) ==
    IF st = NetErr
    THEN Caught([q EXCEPT !.upstatus = st])
    ELSE Relay([q EXCEPT !.upstatus = st], st, b)

RetryDone(r, st, b) ==
    /\ req[r].pc = "retry"
    /\ Becomes(r, retryDone(req[r], st, b))
    /\ UNCHANGED <<now, sessions, nextSid, issued, failed>>

\* ---- POST /api/auth/login-pincode and /api/auth/login-otp
\* The upstream answers ok with tokens, answers a non-ok status, or fetch throws.
\* (mutant) the handler answers with the upstream's token set: res.json(tokens).
LoginOkEchoingTokens(r, tokens) ==
    /\ CanArrive(r)
    /\ issued < MaxIssued
    /\ sessions' = createSession(sessions, nextSid, tokens, now)
    /\ Becomes(r, Respond([req[r] EXCEPT !.kind = "login", !.sessionId = nextSid,
                                          !.setCookie = nextSid],
                           Ok, FALSE,
                           [origin |-> "bff", content |-> "tokens",
                            credentials |-> {tokens.access_token, tokens.refresh_token} \ {0}]))
    /\ nextSid' = nextSid + 1
    /\ issued' = issued + 1
    /\ UNCHANGED <<now, failed>>

LoginOk(r, tokens) ==
    /\ CanArrive(r)
    /\ issued < MaxIssued
    /\ sessions' = createSession(sessions, nextSid, tokens, now)
    /\ Becomes(r, Respond([req[r] EXCEPT !.kind = "login", !.sessionId = nextSid,
                                          !.setCookie = nextSid],
                           Ok, FALSE, Json("success")))
    /\ nextSid' = nextSid + 1
    /\ issued' = issued + 1
    /\ UNCHANGED <<now, failed>>

\* response.json().catch(() => ({ message: "Login failed" }))
loginError(b) == IF Parses(b) THEN Relayed(b) ELSE Json("Login failed")

\* (mutant) every rejection is answered as a failure of the BFF itself.
loginFailedAsServerError(q, st, b) ==
    Respond([q EXCEPT !.upstatus = st], InternalError, FALSE, Json("Login failed"))

loginFailed(q, st, b) ==
    IF st = NetErr
    THEN Respond([q EXCEPT !.upstatus = st], InternalError, FALSE, Json("Login failed"))
    ELSE Respond([q EXCEPT !.upstatus = st], st, FALSE, loginError(b))

LoginFailed(r, st, b) ==
    /\ CanArrive(r)
    /\ Becomes(r, loginFailed([req[r] EXCEPT !.kind = "login"], st, b))
    /\ UNCHANGED <<now, sessions, nextSid, issued, failed>>

\* ---- POST /api/auth/logout
\* (mutant) the handler answers without touching the store.
logoutKeeping(store, c) == store

logout(store, c) ==
    IF c # NoCookie THEN deleteSession(store, c) ELSE store

Logout(r, c) ==
    /\ CanArrive(r)
    /\ sessions' = logout(sessions, c)
    /\ Becomes(r, Respond([req[r] EXCEPT !.kind = "logout", !.sessionId = c,
                                          !.removed = (sessions' # sessions)],
                           Ok, TRUE, Json("success")))
    /\ UNCHANGED <<now, nextSid, issued, failed>>

\* ---- GET /api/auth/session
sessionInfo(store, c, t) ==
    IF c = NoCookie
    THEN [isAuthenticated |-> FALSE, store |-> store]
    ELSE getSessionInfo(store, c, t)

\* (mutant) the handler refreshes a session that is inside the refresh window
\* before it answers.
SessionInfoRefreshing(r, c) ==
    /\ CanArrive(r)
    /\ sessions' = sessionInfo(sessions, c, now).store
    /\ Becomes(r, Respond([req[r] EXCEPT !.kind = "session", !.sessionId = c,
                                          !.isAuthenticated = sessionInfo(sessions, c, now).isAuthenticated,
                                          !.removed = (sessions' # sessions),
                                          !.proactive =
                                              IF /\ c \in DOMAIN sessions
                                                 /\ sessions[c].refreshToken # 0
                                                 /\ sessions[c].expiresAt < now + TOKEN_REFRESH_BUFFER_MS
                                              THEN 1 ELSE 0],
                           Ok, FALSE, Json("isAuthenticated")))
    /\ UNCHANGED <<now, nextSid, issued, failed>>

SessionInfo(r, c) ==
    /\ CanArrive(r)
    /\ sessions' = sessionInfo(sessions, c, now).store
    /\ Becomes(r, Respond([req[r] EXCEPT !.kind = "session", !.sessionId = c,
                                          !.isAuthenticated = sessionInfo(sessions, c, now).isAuthenticated,
                                          !.removed = (sessions' # sessions)],
                           Ok, FALSE, Json("isAuthenticated")))
    /\ UNCHANGED <<now, nextSid, issued, failed>>

Next ==
    \/ Tick
    \/ \E r \in Reqs, c \in Cookies : Arrive(r, c)
    \/ \E r \in Reqs, t \in RefreshResults : AuthRefreshDone(r, t)
    \/ \E r \in Reqs, st \in ForwardOutcomes, b \in UpstreamBodies :
          b \in BodiesOf(st) /\ ForwardDone(r, st, b)
    \/ \E r \in Reqs, t \in RefreshResults : ProxyRefreshDone(r, t)
    \/ \E r \in Reqs, st \in ForwardOutcomes, b \in UpstreamBodies :
          b \in BodiesOf(st) /\ RetryDone(r, st, b)
    \/ \E r \in Reqs, t \in NewTokens : LoginOk(r, t)
    \/ \E r \in Reqs, st \in LoginRejections \cup {NetErr}, b \in LoginErrorBodies :
          (st = NetErr => b = Unread) /\ LoginFailed(r, st, b)
    \/ \E r \in Reqs, c \in Cookies : Logout(r, c)
    \/ \E r \in Reqs, c \in Cookies : SessionInfo(r, c)

Spec == Init /\ [][Next]_vars

\* The same program while the wall clock keeps advancing.  Nothing is assumed
\* of the upstream: every step that continues a parked handler is the arrival
\* of an upstream answer (apiRequest passes no signal and no timeout to fetch),
\* so none of them is fair.
LiveSpec == Spec /\ WF_vars(Tick)

\* The same program, with the answers to refresh exchanges followed on their
\* way back: the upstream issues a token set in one step and the handler gets
\* it in a later one, so the responses of two exchanges may arrive in either
\* order.
RaceNext ==
    \/ Next
    \/ \E r \in Reqs, t \in RefreshResults \ {Null} : RefreshIssued(r, t)
    \/ \E r \in Reqs : AuthRefreshDelivered(r)
    \/ \E r \in Reqs : ProxyRefreshDelivered(r)

RaceSpec == Init /\ [][RaceNext]_vars

\* ------------------------------------------------------------ properties
TypeOK ==
    /\ now \in 0..(MaxTicks * TOKEN_REFRESH_BUFFER_MS)
    /\ DOMAIN sessions \subseteq 1..NumReqs
    /\ issued \in 0..RaceIssued
    /\ \A r \in Reqs : req[r].nForward \in 0..2
    /\ failed \subseteq 1..(nextSid - 1)

\* The requests whose handler is parked on a refresh exchange for session s.
Refreshing(s) ==
    {r \in Reqs : req[r].pc \in {"authRefresh", "proxyRefresh"} /\ req[r].sessionId = s}

\* q was answered 401 because its refresh exchange failed (in requireAuth:
\* no forwarded call yet; in proxyRequest: after the first forwarded call).
RefreshFailed(q) ==
    /\ q.kind = "protected"
    /\ q.status = Unauthorized
    /\ \/ q.proactive = 1 /\ q.nForward = 0
       \/ q.reactive = 1 /\ q.nForward = 1

\* q was answered 401 by requireAuth.
AnsweredByRequireAuth(q) ==
    q.kind = "protected" /\ q.status = Unauthorized /\ q.nForward = 0

\* Session c is inside the refresh window and holds a refresh credential.
RefreshDue(c) ==
    /\ c \in DOMAIN sessions
    /\ sessions[c].refreshToken # 0
    /\ sessions[c].expiresAt < now + TOKEN_REFRESH_BUFFER_MS

\* C1: for every session id at most one refresh exchange is in flight at any
\* time, over requireAuth's and proxyRequest's refreshes together.
C1_SingleFlightRefresh ==
    \A s \in 1..(nextSid - 1) : Cardinality(Refreshing(s)) <= 1

\* C2: a forwarded call makes at most two forwarded attempts and at most one
\* reactive refresh exchange; when the retry is answered 401 as well, the
\* request ends 401 after exactly two attempts and one refresh, and nothing
\* further is sent.
C2_RetryBound ==
    /\ \A r \in Reqs :
          /\ req[r].nForward <= 2
          /\ req[r].reactive <= 1
          /\ req[r].pc = "retry" => req[r].nForward = 2 /\ req[r].reactive = 1
    /\ last.kind = "protected" =>
          /\ last.nForward <= 2
          /\ last.reactive <= 1
          /\ (last.nForward = 2 /\ last.upstatus = Unauthorized) =>
                (last.status = Unauthorized /\ last.reactive = 1)

\* C2 witness: a request was answered 401 after 401, refresh, 401.
C2_RetriedAndGaveUp ==
    /\ last.kind = "protected"
    /\ last.nForward = 2
    /\ last.reactive = 1
    /\ last.upstatus = Unauthorized
    /\ last.status = Unauthorized

\* C3: once a request has been answered 401 because its refresh exchange
\* failed, the row of its session is no longer in the store.
C3_FailedRefreshRemovesRow ==
    RefreshFailed(last) => last.sessionId \notin DOMAIN sessions

\* C4: once a request has been answered after its retried call returned 401
\* too, the answer is 401 and the row of its session is no longer in the store.
C4_SecondUnauthorizedRemovesRow ==
    (last.kind = "protected" /\ last.nForward = 2 /\ last.upstatus = Unauthorized) =>
        (last.status = Unauthorized /\ last.sessionId \notin DOMAIN sessions)

\* C5: a request that arrives with a session id whose refresh exchange has
\* failed before is answered 401 at once, without a refresh exchange.
C5_NoRefreshAfterFailure ==
    [][\A r \in Reqs : \A c \in failed :
          Arrive(r, c) =>
              (req'[r].pc = "done" /\ last'.status = Unauthorized /\ last'.proactive = 0)]_vars

\* C6: requireAuth on a session without refresh credential whose expiresAt
\* has passed answers 401 and leaves no row for it in the store.
C6_LazyExpiryRemovesRow ==
    [][\A r \in Reqs : \A c \in DOMAIN sessions :
          (Arrive(r, c) /\ sessions[c].refreshToken = 0 /\ sessions[c].expiresAt < now) =>
              (req'[r].pc = "done" /\ last'.status = Unauthorized
               /\ c \notin DOMAIN sessions')]_vars

\* C7: requireAuth on any session whose expiresAt has passed, with or without
\* refresh credential, answers 401 at once, starts no refresh exchange and
\* leaves no row for it in the store.
C7_ExpiredIsDeletedNotRefreshed ==
    [][\A r \in Reqs : \A c \in DOMAIN sessions :
          (Arrive(r, c) /\ sessions[c].expiresAt < now) =>
              (req'[r].pc = "done" /\ last'.status = Unauthorized
               /\ last'.proactive = 0 /\ c \notin DOMAIN sessions')]_vars

\* C8 (as claimed): GET /api/auth/session never changes the store.
C8_SessionInfoReadOnly ==
    [][\A r \in Reqs : \A c \in Cookies : SessionInfo(r, c) => sessions' = sessions]_vars

\* C8 (amended): GET /api/auth/session leaves every row as it is, except that
\* it removes the row of the session asked about when that row's expiresAt is
\* strictly before now.
C8_SessionInfoRemovesOnlyExpired ==
    [][\A r \in Reqs : \A c \in Cookies :
          SessionInfo(r, c) =>
              /\ \A s \in DOMAIN sessions \ {c} :
                    s \in DOMAIN sessions' /\ sessions'[s] = sessions[s]
              /\ DOMAIN sessions' \subseteq DOMAIN sessions
              /\ c \in DOMAIN sessions =>
                    IF sessions[c].expiresAt < now
                    THEN c \notin DOMAIN sessions'
                    ELSE c \in DOMAIN sessions' /\ sessions'[c] = sessions[c]]_vars

\* C8 witness: a session-info request has just taken an expired row out.
C8_InfoRemovedExpiredRow ==
    /\ last.kind = "session"
    /\ last.removed
    /\ ~last.isAuthenticated
    /\ last.sessionId \notin DOMAIN sessions

\* C9: a session-info request is never parked on an upstream call and is
\* answered having sent no refresh exchange and no forwarded call.
C9_SessionInfoNoUpstream ==
    /\ \A r \in Reqs : req[r].kind # "session"
    /\ last.kind = "session" =>
          (last.nForward = 0 /\ last.proactive = 0 /\ last.reactive = 0)

\* C9 witness: session-info has just answered for a session that is inside
\* the refresh window and holds a refresh credential.
C9_InfoOnSessionDueForRefresh ==
    /\ last.kind = "session"
    /\ last.isAuthenticated
    /\ RefreshDue(last.sessionId)
    /\ last.nForward = 0 /\ last.proactive = 0 /\ last.reactive = 0

\* C10: at the instant requireAuth answers 401 for a session id,
\* getSessionInfo for the same id reports isAuthenticated = false.
C10_InfoAgreesWithResolve ==
    [][\A r \in Reqs :
          (req[r].pc \in {"idle", "authRefresh"} /\ req'[r].pc = "done"
           /\ AnsweredByRequireAuth(last')) =>
              ~sessionInfo(sessions', last'.sessionId, now').isAuthenticated]_vars

\* C11: logout is answered with success whether or not the session existed,
\* the row of its session id is absent afterwards, and one more logout for
\* the same id would leave the store as it is.
C11_LogoutIdempotent ==
    last.kind = "logout" =>
        /\ last.status = Ok
        /\ last.body = Json("success")
        /\ last.sessionId # NoCookie => last.sessionId \notin DOMAIN sessions
        /\ logout(sessions, last.sessionId) = sessions

\* C11 witness: a logout for an id whose row was already gone was answered
\* with success.
C11_LoggedOutAbsentSession ==
    /\ last.kind = "logout"
    /\ last.sessionId # NoCookie
    /\ ~last.removed
    /\ last.status = Ok
    /\ last.sessionId \notin DOMAIN sessions

\* C12: a login whose exchange succeeds with tokens adds exactly one row,
\* under the id it sets as the cookie, holding access_token, refresh_token and
\* expiresAt = now + expires_in * 1000, and leaves every other row alone; when
\* expires_in is longer than the refresh window, requireAuth on that id right
\* afterwards forwards with that access token and starts no refresh exchange.
C12_LoginCreatesRow ==
    [][\A r \in Reqs : \A tokens \in NewTokens : \A sid \in {nextSid} :
          LoginOk(r, tokens) =>
              /\ last'.status = Ok
              /\ last'.setCookie = sid
              /\ sid \notin DOMAIN sessions
              /\ DOMAIN sessions' = DOMAIN sessions \cup {sid}
              /\ \A s \in DOMAIN sessions : sessions'[s] = sessions[s]
              /\ sessions'[sid] = [accessToken |-> tokens.access_token,
                                   refreshToken |-> tokens.refresh_token,
                                   expiresAt |-> now + tokens.expires_in * 1000]
              /\ tokens.expires_in * 1000 > TOKEN_REFRESH_BUFFER_MS =>
                    /\ (requireAuth(IdleReq, sid).pc)' = "forward"
                    /\ (requireAuth(IdleReq, sid).bearer)' = tokens.access_token
                    /\ (requireAuth(IdleReq, sid).proactive)' = 0]_vars

\* C12 witness: a login has just been answered, its row expires later than the
\* refresh window, and requireAuth on its id would forward with its token.
C12_LoggedInBeyondWindow ==
    /\ last.kind = "login"
    /\ last.status = Ok
    /\ last.setCookie \in DOMAIN sessions
    /\ sessions[last.setCookie].expiresAt > now + TOKEN_REFRESH_BUFFER_MS
    /\ requireAuth(IdleReq, last.setCookie).pc = "forward"
    /\ requireAuth(IdleReq, last.setCookie).bearer = sessions[last.setCookie].accessToken

C15_VerbatimRelay ==
    [][\A r \in Reqs : \A st \in UpstreamStatuses \ {Unauthorized} : \A b \in BodiesOf(st) :
          (ForwardDone(r, st, b) \/ RetryDone(r, st, b)) =>
              (last'.status = st /\ last'.body = Relayed(b))]_vars

\* C16: when fetch throws on a forwarded call (first attempt or retry), the
\* client is sent a 5xx, the cookie is not cleared, the store is as it was, and
\* requireAuth answers every session id as it would have before.
C16_NetworkErrorLeavesSession ==
    [][\A r \in Reqs :
          (ForwardDone(r, NetErr, Unread) \/ RetryDone(r, NetErr, Unread)) =>
              /\ last'.status \in 500..599
              /\ ~last'.cleared
              /\ sessions' = sessions
              /\ \A c \in Cookies :
                    (requireAuth(IdleReq, c))' = requireAuth(IdleReq, c)]_vars

\* C16 witness: a forwarded call has just failed on the network, the client
\* got 500 with its cookie kept, and its session still resolves.
C16_NetworkErrorAnswered ==
    /\ last.kind = "protected"
    /\ last.upstatus = NetErr
    /\ last.nForward >= 1
    /\ last.status = InternalError
    /\ ~last.cleared
    /\ last.sessionId \in DOMAIN sessions
    /\ requireAuth(IdleReq, last.sessionId).pc \in {"forward", "authRefresh"}

\* C17: every request whose handler is parked on an upstream call is answered
\* eventually, also when the upstream never answers that call.
C17_EveryRequestAnswered ==
    \A r \in Reqs :
        (req[r].pc \in {"authRefresh", "forward", "proxyRefresh", "retry"})
            ~> (req[r].pc = "done")

\* C18: when requireAuth's refresh exchange succeeds, the row of the session
\* holds the new access token and expiresAt = now + expires_in * 1000, and the
\* forwarded call of that request is sent with the new access token.
C18_ProactiveRefreshResult ==
    [][\A r \in Reqs : \A newTokens \in NewTokens :
          AuthRefreshDone(r, newTokens) =>
              /\ req[r].sessionId \in DOMAIN sessions'
              /\ sessions'[req[r].sessionId].accessToken = newTokens.access_token
              /\ sessions'[req[r].sessionId].expiresAt = now + newTokens.expires_in * 1000
              /\ req'[r].pc = "forward"
              /\ req'[r].bearer = newTokens.access_token]_vars

\* Session c is in the store and no proactive refresh is due for it: it expires
\* later than the refresh window, or it is inside the window, not yet expired,
\* and holds no refresh token.
NoRefreshDue(c) ==
    /\ c \in DOMAIN sessions
    /\ \/ sessions[c].expiresAt > now + TOKEN_REFRESH_BUFFER_MS
       \/ /\ sessions[c].refreshToken = 0
          /\ sessions[c].expiresAt >= now
          /\ sessions[c].expiresAt < now + TOKEN_REFRESH_BUFFER_MS

\* C19: requireAuth on a session for which no proactive refresh is due starts
\* no refresh exchange, leaves the store as it is and hands the request on with
\* the stored access token.
C19_ResolveReadOnly ==
    [][\A r \in Reqs : \A c \in Cookies :
          (Arrive(r, c) /\ NoRefreshDue(c)) =>
              /\ sessions' = sessions
              /\ issued' = issued
              /\ req'[r].pc = "forward"
              /\ req'[r].proactive = 0
              /\ req'[r].bearer = sessions[c].accessToken]_vars

\* C19 witness: a request on a session inside the window, not yet expired and
\* without refresh token, has been handed on without a refresh exchange while
\* the row is as it was.
C19_HandedOnInsideWindow ==
    \E r \in Reqs :
        /\ req[r].pc = "forward"
        /\ req[r].proactive = 0
        /\ req[r].sessionId \in DOMAIN sessions
        /\ sessions[req[r].sessionId] = req[r].session
        /\ req[r].session.refreshToken = 0
        /\ req[r].session.expiresAt >= now
        /\ req[r].session.expiresAt < now + TOKEN_REFRESH_BUFFER_MS

\* C20: in every step a row keeps its access token and its expiresAt, or gets
\* both from one successful refresh exchange for its session: the access token
\* of that exchange and expiresAt = now + its expires_in * 1000.  No state
\* shows the token of one issuance with the expiry of another.
C20_AtomicRefreshUpdate ==
    [][\A s \in DOMAIN sessions \cap DOMAIN sessions' :
          IF sessions'[s].accessToken = sessions[s].accessToken
          THEN sessions'[s].expiresAt = sessions[s].expiresAt
          ELSE \E r \in Reqs : \E newTokens \in NewTokens :
                  /\ AuthRefreshDone(r, newTokens) \/ ProxyRefreshDone(r, newTokens)
                  /\ req[r].sessionId = s
                  /\ sessions'[s].accessToken = newTokens.access_token
                  /\ sessions'[s].expiresAt = now + newTokens.expires_in * 1000]_vars

\* C20 witness: a refresh exchange has replaced a row; the request that made
\* it is parked on its forwarded call with the new token, and the row holds
\* that token with an expiry reckoned from now.
C20_RowReplacedByRefresh ==
    \E r \in Reqs :
        /\ req[r].pc \in {"forward", "retry"}
        /\ req[r].proactive + req[r].reactive >= 1
        /\ req[r].sessionId \in DOMAIN sessions
        /\ sessions[req[r].sessionId].accessToken = req[r].bearer
        /\ req[r].bearer = issued
        /\ \E e \in ExpiresIn : sessions[req[r].sessionId].expiresAt = now + e * 1000

\* C21: a session id that has no row gets none back by any step but its own
\* login, so a refresh exchange that completes after logout deleted the row
\* leaves the id absent: session-info reports it not authenticated and
\* requireAuth answers it 401.
C21_RefreshNeverRecreatesRow ==
    [][\A s \in 1..(nextSid - 1) :
          s \notin DOMAIN sessions =>
              /\ s \notin DOMAIN sessions'
              /\ ~(sessionInfo(sessions, s, now).isAuthenticated)'
              /\ (requireAuth(IdleReq, s).status)' = Unauthorized]_vars

\* C21 witness: a refresh exchange of requireAuth has succeeded after the row
\* of its session was deleted; the row is still absent.
C21_RefreshedAfterLogout ==
    \E r \in Reqs :
        /\ req[r].pc = "forward"
        /\ req[r].proactive = 1
        /\ req[r].sessionId \notin DOMAIN sessions
        /\ req[r].session = Undefined
        /\ ~sessionInfo(sessions, req[r].sessionId, now).isAuthenticated

\* C22: a request for a protected endpoint that arrives without cookie, or
\* with a session id that has no row, is answered 401 by requireAuth in the
\* same step, having sent no refresh exchange and no forwarded call; the store
\* and the upstream's issuance are as they were.
C22_NoSessionNoUpstream ==
    [][\A r \in Reqs : \A c \in Cookies :
          (Arrive(r, c) /\ (c = NoCookie \/ c \notin DOMAIN sessions)) =>
              /\ req'[r].pc = "done"
              /\ last'.kind = "protected"
              /\ last'.status = Unauthorized
              /\ last'.nForward = 0 /\ last'.proactive = 0 /\ last'.reactive = 0
              /\ sessions' = sessions
              /\ issued' = issued]_vars

\* C22 witness: a request with the id of a row that is gone has just been
\* answered 401 without any upstream call.
C22_AbsentRowAnswered ==
    /\ last.kind = "protected"
    /\ last.sessionId # NoCookie
    /\ last.sessionId \notin DOMAIN sessions
    /\ last.status = Unauthorized
    /\ last.nForward = 0 /\ last.proactive = 0 /\ last.reactive = 0

\* C23: when the first forwarded call is answered 401 and the session the
\* request holds has no refresh token, the request is answered 401 with the
\* cookie cleared in the same step, after exactly one forwarded call and no
\* refresh exchange of proxyRequest; a request that holds a row without refresh
\* token has made no refresh exchange in requireAuth either.
C23_UnauthorizedWithoutRefreshToken ==
    [][\A r \in Reqs : \A b \in BodiesOf(Unauthorized) :
          (ForwardDone(r, Unauthorized, b) /\ req[r].session.refreshToken = 0) =>
              /\ req'[r].pc = "done"
              /\ last'.status = Unauthorized
              /\ last'.cleared
              /\ last'.nForward = 1
              /\ last'.reactive = 0
              /\ req[r].session # Undefined => last'.proactive = 0
              /\ issued' = issued]_vars

\* C23 witness: a request on a row without refresh token has just been
\* answered 401 after one forwarded call that the upstream answered 401.
C23_GaveUpAfterOneAttempt ==
    /\ last.kind = "protected"
    /\ last.upstatus = Unauthorized
    /\ last.status = Unauthorized
    /\ last.cleared
    /\ last.nForward = 1 /\ last.reactive = 0 /\ last.proactive = 0
    /\ last.sessionId \in DOMAIN sessions
    /\ sessions[last.sessionId].refreshToken = 0

\* The refresh exchange of request r has just been completed with the token
\* set g, and the row of its session was in the store.
RefreshCompleted(r, g) ==
    /\ g # Null
    /\ req[r].sessionId \in DOMAIN sessions
    /\ \/ AuthRefreshDone(r, g) \/ ProxyRefreshDone(r, g)
       \/ (req[r].granted = g /\ (AuthRefreshDelivered(r) \/ ProxyRefreshDelivered(r)))

\* C24: a successful refresh exchange puts its access token and
\* expiresAt = now + expires_in * 1000 into the row, and its refresh token too
\* when it has one; when it has none, the row keeps the refresh token it held
\* before the write.
C24_RefreshKeepsStoredRefreshToken ==
    [][\A r \in Reqs : \A g \in NewTokens \cup {req[r].granted} :
          RefreshCompleted(r, g) =>
              sessions'[req[r].sessionId] =
                  [accessToken |-> g.access_token,
                   refreshToken |-> Or(g.refresh_token, sessions[req[r].sessionId].refreshToken),
                   expiresAt |-> now + g.expires_in * 1000]]_vars

\* C25: every forwarded call in flight, first attempt or retry, carries an
\* access token (an Authorization header).
C25_ForwardedWithBearer ==
    \A r \in Reqs : req[r].pc \in {"forward", "retry"} => req[r].bearer # 0

\* C26: when proxyRequest starts its refresh exchange for a session that has a
\* row, the refresh token it submits is the one that row holds at that moment.
C26_ReactiveRefreshSubmitsStored ==
    [][\A r \in Reqs :
          (/\ req[r].pc = "forward"
           /\ req'[r].pc = "proxyRefresh"
           /\ req[r].sessionId \in DOMAIN sessions) =>
              req'[r].session.refreshToken = sessions[req[r].sessionId].refreshToken]_vars

\* C27: the response of a refresh exchange that the upstream issued before
\* the exchange whose tokens the row already holds leaves the row as it is.
C27_OlderExchangeNeverOverwrites ==
    [][\A r \in Reqs : \A g \in NewTokens \cup {req[r].granted} :
          (/\ RefreshCompleted(r, g)
           /\ g.access_token < sessions[req[r].sessionId].accessToken) =>
              sessions'[req[r].sessionId] = sessions[req[r].sessionId]]_vars

\* C28: when the response sent last is that of a logout, no request in flight
\* for the session logged out starts a refresh exchange of proxyRequest or a
\* retried forwarded call in the next step.
C28_NothingStartedAfterLogout ==
    [][\A r \in Reqs :
          (/\ last.kind = "logout"
           /\ last.sessionId # NoCookie
           /\ req[r].sessionId = last.sessionId) =>
              /\ req[r].pc = "forward" => req'[r].pc # "proxyRefresh"
              /\ req[r].pc = "proxyRefresh" => req'[r].pc # "retry"]_vars

\* In this step every row but those of the ids in own stays as it is, and no
\* row is added but under the ids in fresh.
OthersUntouched(own, fresh) ==
    /\ \A s \in DOMAIN sessions \ own :
          s \in DOMAIN sessions' /\ sessions'[s] = sessions[s]
    /\ DOMAIN sessions' \subseteq DOMAIN sessions \cup fresh

C30_ExactlyOneResponse ==
    /\ \A r \in Reqs :
          req[r].pc \in {"authRefresh", "forward", "proxyRefresh", "retry"} =>
              req[r].responses = 0 /\ req[r].status = NoStatus
    /\ last.kind = "protected" =>
          /\ last.responses = 1
          /\ last.nForward = 0 => last.status = Unauthorized
          /\ last.nForward >= 1 =>
                \/ last.body.origin = "upstream" /\ last.status = last.upstatus
                                                /\ last.status \in UpstreamStatuses \ {Unauthorized}
                \/ last.body = Json("Session expired") /\ last.status = Unauthorized
                \/ last.body = Json("Internal server error") /\ last.status = InternalError

\* C30 witness: a request that went through refresh-and-retry has been sent
\* one response, the relayed answer to its retried call.
C30_AnsweredOnceAfterRetry ==
    /\ last.kind = "protected"
    /\ last.nForward = 2
    /\ last.reactive = 1
    /\ last.responses = 1
    /\ last.status = Ok
    /\ last.body.origin = "upstream"

====
